---- MODULE Spec2Model ----
(***************************************************************************)
(* Model of the testaroli override chain: the global expectations list,    *)
(* the code bytes at each overridable function's entry, and the operations *)
(* Override, Expectation, Reset, ResetAll and ExpectationsWereMet.         *)
(***************************************************************************)
EXTENDS Integers, Sequences, FiniteSets, TLC

\* ---------------------------------------------------------------- bounds
MaxLen == 2                \* longest expectations list explored
MaxPatched == 1  \* functions holding a redirect at once (patching layer)
MaxCalls == 2              \* cap on actCount of Unlimited/Always overrides

\* ------------------------------------------------------ program constants
Once == 1
Unlimited == 0 - 1
Always == 0 - 2
minOccurenceCount == Always

\* functions of the program under test and the mocks passed to Override
Funcs == {"foo", "bar"}
Mocks == {"mock1", "mock2"}
NotMock == "test"          \* a caller of Expectation that is no mock
NoFunc == "none"
\* how often one run of a mock body calls Expectation(): never, once, twice
ExpectationCallCounts == {0, 1, 2}

\* the counts passed to Override: the sentinels, fixed quotas, invalid ones
Counts == {minOccurenceCount - 1, Always, Unlimited, 0, Once, 2}

\* ------------------------------------------------------------ code bytes
\* prologue of the unpatched function f
Orig(f) == <<"org", f>>
\* the jump written over a prologue: control goes to mock
Stub(mock) == <<"jmp", mock>>
\* a nil []byte
NilPrologue == <<>>

VARIABLES
    expectations,   \* var expectations []*Expect
    mem,            \* the bytes at the entry of every function
    sessionMem,     \* history: mem when the session began
    last            \* history: the last operation and its outcome

\* the state of the patching layer (override_amd64/arm64, mem_unix, mem_darwin)
VARIABLES
    platform,       \* GOARCH, GOOS and os.Getpagesize() of the build
    text,           \* the bytes at the entry of every function, by address
    prot,           \* the protection of every page of the text segment
    saved,          \* the orgPrologue override returned, by address
    cpu,            \* where the patching thread is
    suspended,      \* the other threads are suspended
    fetched,        \* the bytes another thread has just begun to execute
    done            \* history: the outcome of the last patch

\* the state of the Mock/Series interface (mock.go, series.go)
VARIABLES
    global,         \* var globalMock Mock / var globalSeries Series
    patched,        \* where the entry of every function leads
    session         \* history: the last call and the sessions created

chainVars == <<expectations, mem, sessionMem, last>>
patchVars == <<platform, text, prot, saved, cpu, suspended, fetched, done>>
sessionVars == <<global, patched, session>>
vars == <<chainVars, patchVars, sessionVars>>

\* type Expect struct
Expect(ctxCount, mockPointer, orgPointer) ==
    [expCount |-> ctxCount, actCount |-> 0, mockAddr |-> mockPointer,
     orgAddr |-> orgPointer, orgPrologue |-> NilPrologue]

\* slices.Delete(s, i, i+1), 1-based
Delete(s, i) == [j \in 1..(Len(s) - 1) |-> IF j < i THEN s[j] ELSE s[j + 1]]

\* func numLeadingAlways() int: number of leading Always entries of exps
numLeadingAlways(exps) ==
    IF \E i \in 1..Len(exps) : exps[i].expCount # Always
    THEN (CHOOSE i \in 1..Len(exps) :
             /\ exps[i].expCount # Always
             /\ \A j \in 1..(i - 1) : exps[j].expCount = Always) - 1
    ELSE Len(exps)

\* func override(orgPointer, mockPointer) []byte: the new bytes of memory
overrideMem(m, orgPointer, mockPointer) ==
    [m EXCEPT ![orgPointer] = Stub(mockPointer)]

overrideSavedNothing(m, orgPointer) == NilPrologue

\* func override(orgPointer, mockPointer) []byte: the returned orgPrologue
overrideSaved(m, orgPointer) == m[orgPointer]

\* func reset(ptr, buf): replacePrologue copies len(buf) bytes over ptr
reset(m, ptr, buf) ==
    IF buf = NilPrologue THEN m ELSE [m EXCEPT ![ptr] = buf]

overrideNextInChainNothing(st) == st

\* func overrideNextInChain(): state is [exps, mem]
overrideNextInChain(st) ==
    LET next == numLeadingAlways(st.exps) + 1 IN
    IF next <= Len(st.exps)
    THEN [exps |-> [st.exps EXCEPT ![next].orgPrologue =
                       overrideSaved(st.mem, st.exps[next].orgAddr)],
          mem |-> overrideMem(st.mem, st.exps[next].orgAddr,
                              st.exps[next].mockAddr)]
    ELSE st

TypeOK ==
    /\ Len(expectations) <= MaxLen
    /\ \A i \in 1..Len(expectations) :
          /\ expectations[i].orgAddr \in Funcs
          /\ expectations[i].mockAddr \in Mocks
          /\ expectations[i].actCount \in 0..MaxCalls
    /\ \A f \in Funcs : mem[f] \in {Orig(f)} \cup {Stub(k) : k \in Mocks}

\* the value of last while no operation's outcome is being observed
Idle == [op |-> "none", org |-> NoFunc, count |-> 0, mock |-> NotMock,
         result |-> "ok", err |-> <<>>]

\* the patching layer and the Mock/Series interface before anything runs in
\* them: the specifications of the other layers hold them at these values
NoPlatform == [arch |-> "none", os |-> "none", pageSize |-> 0]
NoPatch == [op |-> "none", at |-> "idle"]
NoFetch == [ptr |-> <<>>, bytes |-> <<>>]
NoOutcome == [op |-> "none", result |-> "none"]
PatchAtRest ==
    /\ platform = NoPlatform
    /\ text = <<>>
    /\ prot = <<>>
    /\ saved = <<>>
    /\ cpu = NoPatch
    /\ suspended = FALSE
    /\ fetched = NoFetch
    /\ done = NoOutcome

NoSession == [op |-> "none", result |-> "none", open |-> FALSE]
SessionAtRest ==
    /\ global = [api |-> "none", expected |-> <<>>]
    /\ patched = <<>>
    /\ session = NoSession

ChainInit ==
    /\ expectations = <<>>
    /\ mem = [f \in Funcs |-> Orig(f)]
    /\ sessionMem = [f \in Funcs |-> Orig(f)]
    /\ last = Idle

Init ==
    /\ ChainInit
    /\ PatchAtRest
    /\ SessionAtRest

\* the bytes every function held when the session now open (or, right after
\* ExpectationsWereMet, the session just closed) began
SessionStart ==
    IF last.op = "ExpectationsWereMet" THEN mem ELSE sessionMem

\* last holds the outcome of the operation that has just returned until
\* Return clears it; an operation starts only from a cleared last, so that
\* what follows an operation does not depend on how its state was reached.
Continues == last = Idle

\* the operation recorded in last has returned to the test and been observed
Return ==
    /\ last # Idle
    /\ last' = Idle
    /\ sessionMem' = SessionStart
    /\ UNCHANGED <<patchVars, sessionVars>>
    /\ UNCHANGED <<expectations, mem>>

\* the test function whose t was handed to TestingContext returns.
\* TestingContext only stores t in a context value and Override only reads it
\* back through Testing(ctx): nothing is registered to run at the end of the
\* test, so the list and the bytes stay as the test left them.
TestEnds ==
    /\ Continues
    /\ last' = [op |-> "TestEnds", org |-> NoFunc, count |-> 0,
                mock |-> NotMock, result |-> "ok", err |-> <<>>]
    /\ sessionMem' = SessionStart
    /\ UNCHANGED <<expectations, mem>>
    /\ UNCHANGED <<patchVars, sessionVars>>

\* ------------------------------------------------------------- Override
InvalidCountZeroAllowed(count) == count < minOccurenceCount

InvalidCountOnlyZero(count) == count = 0

\* if count < minOccurenceCount || count == 0
InvalidCount(count) == count < minOccurenceCount \/ count = 0

\* index of the first entry of exps for org at which the loop panics, or 0
RECURSIVE ConflictAt(_, _, _, _)
ConflictAt(exps, org, count, i) ==
    IF i > Len(exps) THEN 0
    ELSE IF exps[i].orgAddr = org
            /\ (exps[i].expCount = Always \/ count = Always)
         THEN i
         ELSE ConflictAt(exps, org, count, i + 1)

ConflictNoAlwaysPrev(exps, org, count) ==
    IF count = Always /\ \E i \in 1..Len(exps) : exps[i].orgAddr = org
    THEN "panic: cannot Always override"
    ELSE "ok"

ConflictNoAlwaysNew(exps, org, count) ==
    IF \E i \in 1..Len(exps) :
          exps[i].orgAddr = org /\ exps[i].expCount = Always
    THEN "panic: previously overridden with Always"
    ELSE "ok"

\* the loop "make sure override doesn't conflict for previous 'Always'
\* override": the panic it raises, or "ok"
Conflict(exps, org, count) ==
    LET i == ConflictAt(exps, org, count, 1) IN
    IF i = 0 THEN "ok"
    ELSE IF exps[i].expCount = Always
         THEN "panic: previously overridden with Always"
         ELSE "panic: cannot Always override"

\* the panic Override raises for (org, count), or "ok"
OverrideCheck(exps, org, count) ==
    IF InvalidCount(count) THEN "panic: Invalid count"
    ELSE Conflict(exps, org, count)

InstallNowOnlyFirst(exps, count) == count = Always \/ Len(exps) = 0

\* if count == Always || len(expectations) == numLeadingAlways()
InstallNow(exps, count) ==
    count = Always \/ Len(exps) = numLeadingAlways(exps)

\* func Override(ctx, org, count, mock)
Override(org, count, mock) ==
    LET res == OverrideCheck(expectations, org, count)
        install == InstallNow(expectations, count)
        expectedCall ==
            IF install
            THEN [Expect(count, mock, org) EXCEPT
                     !.orgPrologue = overrideSaved(mem, org)]
            ELSE Expect(count, mock, org)
    IN /\ Continues
       /\ IF res = "ok"
          THEN /\ Len(expectations) < MaxLen
               /\ expectations' = Append(expectations, expectedCall)
               /\ mem' = IF install THEN overrideMem(mem, org, mock) ELSE mem
          ELSE UNCHANGED <<expectations, mem>>
       /\ sessionMem' = SessionStart
       /\ UNCHANGED <<patchVars, sessionVars>>
       /\ last' = [op |-> "Override",
                   org |-> IF res = "panic: Invalid count" THEN NoFunc ELSE org,
                   count |-> count,
                   mock |-> IF res = "ok" THEN mock ELSE NotMock,
                   result |-> res, err |-> <<>>]

\* arguments of Override that its checks on org, mock and ctx refuse: org or
\* mock no function, ctx not made by TestingContext, org the trampoline of a
\* generic function, org a method reached through its interface
Malformed == {"not a function", "wrong context", "generic",
              "interface method"}

\* the panic of Override for such an argument, the checks taken in the order
\* of the code: kind of org and mock, count, Testing(ctx), isGenericFunction,
\* interface method. The loop over the list between the last two finds
\* nothing: a generic or interface-method org was never accepted, so no entry
\* has its address.
MalformedCheck(arg, count) ==
    IF arg = "not a function"
    THEN "panic: Override() can be called only for function/method"
    ELSE IF InvalidCount(count) THEN "panic: Invalid count"
    ELSE IF arg = "wrong context"
    THEN "panic: Context wasn't created with TestingContext()"
    ELSE IF arg = "generic"
    THEN "panic: Overriding generic functions has limited support"
    ELSE "panic: Override() cannot be called for interface method"

\* func Override(ctx, org, count, mock) called with a malformed argument: it
\* panics before override() and append are reached
OverrideMalformed(arg, count) ==
    /\ Continues
    /\ UNCHANGED <<expectations, mem>>
    /\ sessionMem' = SessionStart
    /\ UNCHANGED <<patchVars, sessionVars>>
    /\ last' = [op |-> "OverrideMalformed", org |-> NoFunc, count |-> 0,
                mock |-> NotMock, result |-> MalformedCheck(arg, count),
                err |-> <<>>]

\* --------------------------------------------------- ExpectationsWereMet
DeficiencyNotCalled(e) == [orgName |-> e.orgAddr, text |-> "was not called"]

\* one line of the joined error: "function %s was not called" or
\* "function %s was called %d time(s) instead of %d"
Deficiency(e) ==
    IF e.actCount = 0
    THEN [orgName |-> e.orgAddr, text |-> "was not called"]
    ELSE [orgName |-> e.orgAddr, text |-> "was called",
          actCount |-> e.actCount, expCount |-> e.expCount]

WereMetLoopNoneIsDeficient(exps, i, acc) ==
    [mem |-> acc.mem,
     err |-> Append(acc.err, [orgName |-> NoFunc, text |-> "was not called"])]

\* the loop of ExpectationsWereMet from index i on; acc is [mem, err]
RECURSIVE WereMetLoop(_, _, _)
WereMetLoop(exps, i, acc) ==
    IF i > Len(exps) THEN acc
    ELSE LET e == exps[i]
             m == reset(acc.mem, e.orgAddr, e.orgPrologue)
         IN IF (e.expCount = Unlimited /\ i = Len(exps))
               \/ e.expCount = Always
            THEN [mem |-> m, err |-> acc.err]
            ELSE WereMetLoop(exps, i + 1,
                     [mem |-> m, err |-> Append(acc.err, Deficiency(e))])

\* func ExpectationsWereMet() error; last.entries is the length of the list
\* the call found
ExpectationsWereMet ==
    LET out == WereMetLoop(expectations, 1, [mem |-> mem, err |-> <<>>])
    IN /\ Continues
       /\ expectations' = <<>>
       /\ mem' = out.mem
       /\ sessionMem' = SessionStart
       /\ UNCHANGED <<patchVars, sessionVars>>
       /\ last' = [op |-> "ExpectationsWereMet", org |-> NoFunc, count |-> 0,
                   mock |-> NotMock,
                   result |-> IF out.err = <<>> THEN "nil"
                              ELSE "ErrExpectationsNotMet",
                   err |-> out.err, entries |-> Len(expectations)]

\* ---------------------------------------------------------- Expectation
ExpectationMatchFirstEntry(exps, entry) == IF Len(exps) > 0 THEN 1 ELSE 0

\* index of the first entry whose mockAddr is the caller's entry, or 0
ExpectationMatch(exps, entry) ==
    IF \E i \in 1..Len(exps) : exps[i].mockAddr = entry
    THEN CHOOSE i \in 1..Len(exps) :
            /\ exps[i].mockAddr = entry
            /\ \A j \in 1..(i - 1) : exps[j].mockAddr # entry
    ELSE 0

\* no handle: Expectation() panicked or was not called
NilExpect == Expect(0, NotMock, NoFunc)

RunNumberOneBased(e) == e.actCount

\* func (e Expect) RunNumber() int
RunNumber(e) == e.actCount - 1

ExpectationCallAnyMatch(st, entry) ==
    LET order == ExpectationMatch(st.exps, entry) IN
    IF order = 0
    THEN [exps |-> st.exps, mem |-> st.mem, order |-> 0,
          result |-> "panic: not from mock function", expect |-> NilExpect]
    ELSE [exps |-> [st.exps EXCEPT ![order].actCount = @ + 1],
          mem |-> st.mem, order |-> order, result |-> "ok",
          expect |-> [st.exps[order] EXCEPT !.actCount = @ + 1]]

\* the outcome of func Expectation() called from a function whose entry is
\* entry, in state st = [exps, mem]: the new state, the result, the index
\* (order + 1) of the matched override and the *Expect returned
ExpectationCall(st, entry) ==
    LET order == ExpectationMatch(st.exps, entry) IN
    IF order = 0
    THEN [exps |-> st.exps, mem |-> st.mem, order |-> 0,
          result |-> "panic: not from mock function", expect |-> NilExpect]
    ELSE IF ~(st.exps[order].expCount = Always
              \/ numLeadingAlways(st.exps) = order - 1)
    THEN [exps |-> st.exps, mem |-> st.mem, order |-> order,
          result |-> "panic: unexpected function call", expect |-> NilExpect]
    ELSE LET expect == [st.exps[order] EXCEPT !.actCount = @ + 1]
             counted == [st.exps EXCEPT ![order] = expect]
         IN IF expect.actCount = expect.expCount
               /\ ~(expect.expCount = Unlimited \/ expect.expCount = Always)
            THEN LET after == overrideNextInChain(
                        [exps |-> Delete(counted, order),
                         mem |-> reset(st.mem, expect.orgAddr,
                                       expect.orgPrologue)])
                 IN [exps |-> after.exps, mem |-> after.mem,
                     order |-> order, result |-> "ok", expect |-> expect]
            ELSE [exps |-> counted, mem |-> st.mem, order |-> order,
                  result |-> "ok", expect |-> expect]

\* a function body that calls Expectation() n times in a row; a panic ends
\* the body
RECURSIVE ExpectationCalls(_, _, _)
ExpectationCalls(st, entry, n) ==
    IF n = 0
    THEN [exps |-> st.exps, mem |-> st.mem, order |-> 0, result |-> "ok",
          expect |-> NilExpect]
    ELSE LET r == ExpectationCall(st, entry) IN
         IF r.result # "ok" \/ n = 1 THEN r
         ELSE ExpectationCalls([exps |-> r.exps, mem |-> r.mem], entry, n - 1)

WithinCalls(exps) == \A i \in 1..Len(exps) : exps[i].actCount <= MaxCalls

\* where a call of function f lands: the mock its entry jumps to, or f
Route(m, f) == IF m[f][1] = "jmp" THEN m[f][2] ELSE f

\* the program calls f; a mock that is reached calls Expectation() n times.
\* last.run is RunNumber() of the handle its last call of Expectation()
\* returned.
Call(f, n) ==
    LET to == Route(mem, f)
        r == IF to \in Mocks
             THEN ExpectationCalls([exps |-> expectations, mem |-> mem], to, n)
             ELSE [exps |-> expectations, mem |-> mem, order |-> 0,
                   result |-> "ok", expect |-> NilExpect]
    IN /\ Continues
       /\ to \notin Mocks => n = 0
       /\ WithinCalls(r.exps)
       /\ expectations' = r.exps
       /\ mem' = r.mem
       /\ sessionMem' = SessionStart
       /\ UNCHANGED <<patchVars, sessionVars>>
       /\ last' = [op |-> "Call", org |-> f, count |-> n, mock |-> to,
                   result |-> r.result, err |-> <<>>,
                   run |-> RunNumber(r.expect)]

\* what a mock body does after its call of Expectation() returned: call the
\* overridden function again (TestReplaceArg), or panic
\* (TestMockWithPanicMultipleCalls)
BodyContinuations == {"call", "panic"}

\* the program calls f; a mock that is reached calls Expectation() once and
\* then goes on as then says. A function reached by the inner call, if it is a
\* mock, calls Expectation() once and returns. last.inner is the function the
\* inner call landed in, NoFunc if there was none.
CallThen(f, then) ==
    LET to == Route(mem, f)
        st == [exps |-> expectations, mem |-> mem]
        r == ExpectationCall(st, to)
        innerTo == Route(r.mem, f)
        inner == IF innerTo \in Mocks
                 THEN ExpectationCall([exps |-> r.exps, mem |-> r.mem], innerTo)
                 ELSE r
        out == IF r.result # "ok" \/ then = "panic" THEN r ELSE inner
    IN /\ Continues
       /\ to \in Mocks
       /\ WithinCalls(out.exps)
       /\ expectations' = out.exps
       /\ mem' = out.mem
       /\ sessionMem' = SessionStart
       /\ UNCHANGED <<patchVars, sessionVars>>
       /\ last' = [op |-> "CallThen", org |-> f, count |-> 1, mock |-> to,
                   result |-> IF r.result = "ok" /\ then = "panic"
                              THEN "panic: mock body" ELSE out.result,
                   err |-> <<>>,
                   inner |-> IF r.result = "ok" /\ then = "call"
                             THEN innerTo ELSE NoFunc]

\* Expectation() called from a function that the program called directly and
\* whose entry is entry: a test function (NotMock), or a mock the test calls
\* by name rather than through an overridden function
Expectation(entry) ==
    LET r == ExpectationCall([exps |-> expectations, mem |-> mem], entry)
    IN /\ Continues
       /\ WithinCalls(r.exps)
       /\ expectations' = r.exps
       /\ mem' = r.mem
       /\ sessionMem' = SessionStart
       /\ UNCHANGED <<patchVars, sessionVars>>
       /\ last' = [op |-> "Expectation", org |-> NoFunc, count |-> 1,
                   mock |-> entry, result |-> r.result, err |-> <<>>,
                   run |-> RunNumber(r.expect)]

\* --------------------------------------------------------- Reset, ResetAll
FirstForAnyTarget(exps, org) == IF Len(exps) > 0 THEN 1 ELSE 0

\* index of the first entry for org, or 0
FirstFor(exps, org) ==
    IF \E i \in 1..Len(exps) : exps[i].orgAddr = org
    THEN CHOOSE i \in 1..Len(exps) :
            /\ exps[i].orgAddr = org
            /\ \A j \in 1..(i - 1) : exps[j].orgAddr # org
    ELSE 0

ResetEntryAlwaysAdvance(st, i) ==
    LET e == st.exps[i] IN
    overrideNextInChain(
        [exps |-> Delete(st.exps, i),
         mem |-> reset(st.mem, e.orgAddr, e.orgPrologue)])

ResetEntryNoAdvance(st, i) ==
    LET e == st.exps[i] IN
    [exps |-> Delete(st.exps, i),
     mem |-> IF Len(e.orgPrologue) > 0
             THEN reset(st.mem, e.orgAddr, e.orgPrologue) ELSE st.mem]

\* the body of the loops of Reset and ResetAll for the entry at index i
ResetEntry(st, i) ==
    LET e == st.exps[i]
        deleted == [exps |-> Delete(st.exps, i), mem |-> st.mem]
    IN IF Len(e.orgPrologue) > 0
       THEN LET restored == [exps |-> deleted.exps,
                             mem |-> reset(st.mem, e.orgAddr, e.orgPrologue)]
            IN IF e.expCount # Always THEN overrideNextInChain(restored)
               ELSE restored
       ELSE deleted

\* the entries of exps that override org, in order
OverridesOf(exps, org) ==
    LET OfOrg(e) == e.orgAddr = org IN SelectSeq(exps, OfOrg)

\* func Reset(org any); last.removed holds the entry the call deleted, as it
\* was before the call
Reset(org) ==
    LET i == FirstFor(expectations, org)
        st == [exps |-> expectations, mem |-> mem]
        r == IF i = 0 THEN st ELSE ResetEntry(st, i)
    IN /\ Continues
       /\ expectations' = r.exps
       /\ mem' = r.mem
       /\ sessionMem' = SessionStart
       /\ UNCHANGED <<patchVars, sessionVars>>
       /\ last' = [op |-> "Reset", org |-> org, count |-> 0, mock |-> NotMock,
                   result |-> "ok", err |-> <<>>,
                   removed |-> IF i = 0 THEN <<>> ELSE <<expectations[i]>>]

\* the loop of ResetAll from index i on
RECURSIVE ResetAllLoop(_, _, _)
ResetAllLoop(st, org, i) ==
    IF i > Len(st.exps) THEN st
    ELSE IF st.exps[i].orgAddr = org
         THEN ResetAllLoop(ResetEntry(st, i), org, i)
         ELSE ResetAllLoop(st, org, i + 1)

\* func ResetAll(org any); last.removed holds the entries of org in the list
\* the call started from
ResetAll(org) ==
    LET r == ResetAllLoop([exps |-> expectations, mem |-> mem], org, 1)
    IN /\ Continues
       /\ expectations' = r.exps
       /\ mem' = r.mem
       /\ sessionMem' = SessionStart
       /\ UNCHANGED <<patchVars, sessionVars>>
       /\ last' = [op |-> "ResetAll", org |-> org, count |-> 0,
                   mock |-> NotMock, result |-> "ok", err |-> <<>>,
                   removed |-> OverridesOf(expectations, org)]

Next ==
    \/ \E org \in Funcs, count \in Counts, mock \in Mocks :
          Override(org, count, mock)
    \/ \E arg \in Malformed, count \in Counts : OverrideMalformed(arg, count)
    \/ \E f \in Funcs, n \in ExpectationCallCounts : Call(f, n)
    \/ \E f \in Funcs, then \in BodyContinuations : CallThen(f, then)
    \/ \E entry \in Mocks \cup {NotMock} : Expectation(entry)
    \/ \E org \in Funcs : Reset(org)
    \/ \E org \in Funcs : ResetAll(org)
    \/ ExpectationsWereMet
    \/ TestEnds
    \/ Return

Spec == Init /\ [][Next]_vars
\* ------------------------------------------------------------ properties
\* e holds saved bytes (len(e.orgPrologue) > 0)
Installed(e) == Len(e.orgPrologue) > 0
\* the entry of f holds a jump
Redirected(f) == mem[f][1] = "jmp"
\* e has a fixed quota
Fixed(e) == e.expCount > 0

\* index of the first non-Always entry of exps (the chain head), or
\* Len(exps) + 1
ChainHead(exps) == numLeadingAlways(exps) + 1

\* the bytes the claims expect at f once the chain head of exps is installed:
\* the head's jump if the head overrides f, else f's own prologue
HeadOrOriginal(exps, f) ==
    IF ChainHead(exps) <= Len(exps) /\ exps[ChainHead(exps)].orgAddr = f
    THEN Stub(exps[ChainHead(exps)].mockAddr)
    ELSE Orig(f)

\* C1: after ExpectationsWereMet returns, every function holds the bytes it
\* held when the session began, so every Target patched during the session
\* is restored.
C1_TeardownRestoresEveryTarget ==
    last.op = "ExpectationsWereMet" => \A f \in Funcs : mem[f] = sessionMem[f]

\* C2: ExpectationsWereMet reports a deficiency for every override with a
\* fixed quota that is still in the list, wherever it sits relative to
\* Always overrides, and so returns nil only if none remains.
C2_TeardownReportsEveryDeficiency ==
    [][ExpectationsWereMet =>
          /\ \A i \in 1..Len(expectations) :
                Fixed(expectations[i]) =>
                   \E k \in 1..Len(last'.err) :
                      last'.err[k] = Deficiency(expectations[i])
          /\ last'.result = "nil" =>
                \A i \in 1..Len(expectations) : ~Fixed(expectations[i])
      ]_vars

\* no two entries of exps share a replacement
DistinctMocks(exps) ==
    \A i, j \in 1..Len(exps) : i # j => exps[i].mockAddr # exps[j].mockAddr

\* C3: a fixed-N override never records more than N calls, and when the
\* chain head overrides f with quota N, has recorded N - 1 calls, and f is
\* called once more (the mock, which no other override uses, calling
\* Expectation once), the next call of f reaches the next chain member's
\* mock if that member overrides f, else the original f.
C3_ExhaustedOverrideNotReached ==
    [][/\ \A i \in 1..Len(expectations') :
             Fixed(expectations'[i]) =>
                expectations'[i].actCount <= expectations'[i].expCount
       /\ \A f \in Funcs :
             (/\ Call(f, 1)
              /\ DistinctMocks(expectations)
              /\ ChainHead(expectations) <= Len(expectations)
              /\ LET e == expectations[ChainHead(expectations)]
                 IN /\ e.orgAddr = f
                    /\ Fixed(e)
                    /\ e.actCount = e.expCount - 1
                    /\ mem[f] = Stub(e.mockAddr))
             => mem'[f] = HeadOrOriginal(
                              Delete(expectations, ChainHead(expectations)), f)
      ]_vars
\* the indices of the non-Always entries for f: the Chain of Target f
TargetChain(exps, f) ==
    {i \in 1..Len(exps) : exps[i].orgAddr = f /\ exps[i].expCount # Always}

Min(S) == CHOOSE x \in S : \A y \in S : x <= y

\* C4 as stated: for every Target with a non-empty Chain, exactly one member
\* of that Chain is installed and it is the first entry of that Chain.
C4_EveryTargetChainHeadInstalled ==
    \A f \in Funcs :
       LET chain == TargetChain(expectations, f) IN
       chain # {} =>
          \A i \in chain : Installed(expectations[i]) <=> i = Min(chain)

\* C4 amended: of the non-Always entries of the whole list, exactly the
\* first one is installed, and its Target holds the jump to its mock.
C4_ListChainHeadInstalled ==
    \A i \in 1..Len(expectations) :
       expectations[i].expCount # Always =>
          /\ Installed(expectations[i]) <=> i = ChainHead(expectations)
          /\ i = ChainHead(expectations) =>
                mem[expectations[i].orgAddr] = Stub(expectations[i].mockAddr)

\* a second Target's override waits behind the installed head of the list
C4_Witness ==
    /\ last.op = "Call"
    /\ Len(expectations) = 2
    /\ expectations[1].expCount # Always /\ expectations[2].expCount # Always
    /\ expectations[1].orgAddr # expectations[2].orgAddr
    /\ expectations[1].actCount > 0
    /\ Installed(expectations[1]) /\ ~Installed(expectations[2])

\* what a successful Override(org, count, mock) does when it installs ...
OverrideInstalls(org, count, mock) ==
    /\ expectations' = Append(expectations,
          [Expect(count, mock, org) EXCEPT !.orgPrologue = mem[org]])
    /\ mem' = [mem EXCEPT ![org] = Stub(mock)]

\* ... and when it only appends
OverrideAppends(org, count, mock) ==
    /\ expectations' = Append(expectations, Expect(count, mock, org))
    /\ mem' = mem

\* C5 as stated: a successful non-Always Override installs at once when the
\* Target has no chain member, whatever other Targets have; it appends
\* without installing when the Target has one.
C5_InstallsWhenTargetChainEmpty ==
    [][(last'.op = "Override" /\ last'.result = "ok"
        /\ last'.count # Always)
       => IF TargetChain(expectations, last'.org) = {}
          THEN OverrideInstalls(last'.org, last'.count, last'.mock)
          ELSE OverrideAppends(last'.org, last'.count, last'.mock)
      ]_vars

\* C5 amended: a successful non-Always Override installs at once, saving
\* the bytes the Target held, when the list holds no non-Always override
\* of any Target; otherwise it appends at the end and installs nothing.
C5_InstallsWhenListChainEmpty ==
    [][(last'.op = "Override" /\ last'.result = "ok"
        /\ last'.count # Always)
       => IF \A i \in 1..Len(expectations) :
                expectations[i].expCount = Always
          THEN OverrideInstalls(last'.org, last'.count, last'.mock)
          ELSE OverrideAppends(last'.org, last'.count, last'.mock)
      ]_vars

\* a non-Always override registered behind an Always one is installed
C5_Witness ==
    /\ last.op = "Override" /\ last.result = "ok" /\ last.count > 0
    /\ Len(expectations) = 2
    /\ expectations[1].expCount = Always
    /\ expectations[2].orgAddr = last.org
    /\ Installed(expectations[2])
    /\ mem[last.org] = Stub(last.mock)

\* the list is Override(foo, N) then Override(bar, M), both non-Always
TwoOverrides(exps) ==
    /\ Len(exps) = 2
    /\ exps[1].expCount # Always /\ exps[2].expCount # Always
    /\ exps[1].orgAddr # exps[2].orgAddr

\* C6: with Override(foo, N) registered before Override(bar, M), foo is
\* redirected and bar is original until foo's quota is used up; the call
\* that uses it up restores foo and redirects bar; the call that uses up
\* the last override leaves nothing redirected.
C6_OnlyFirstRedirectedUntilExhausted ==
    [][/\ TwoOverrides(expectations) =>
             /\ mem[expectations[1].orgAddr] = Stub(expectations[1].mockAddr)
             /\ mem[expectations[2].orgAddr] = Orig(expectations[2].orgAddr)
       /\ (TwoOverrides(expectations) /\ last'.op = "Call"
           /\ Len(expectations') = 1) =>
             /\ mem'[expectations[1].orgAddr] = Orig(expectations[1].orgAddr)
             /\ mem'[expectations[2].orgAddr] = Stub(expectations[2].mockAddr)
       /\ (Len(expectations) = 1 /\ Fixed(expectations[1])
           /\ last'.op = "Call" /\ expectations' = <<>>) =>
             \A f \in Funcs : mem'[f] = Orig(f)
      ]_vars

\* the step is Reset(f), ResetAll(f) or ExpectationsWereMet
Removes(f) ==
    \/ last'.op \in {"Reset", "ResetAll"} /\ last'.org = f
    \/ last'.op = "ExpectationsWereMet"

\* C7: while an Always override of T is in the list, T holds the jump to its
\* mock and the list holds no other override of T; every step other than
\* Reset(T), ResetAll(T) and ExpectationsWereMet keeps both.
C7_AlwaysStaysInstalled ==
    [][\A i \in 1..Len(expectations) :
          expectations[i].expCount = Always =>
             LET e == expectations[i] IN
             /\ mem[e.orgAddr] = Stub(e.mockAddr)
             /\ \A j \in 1..Len(expectations) :
                   j # i => expectations[j].orgAddr # e.orgAddr
             /\ ~Removes(e.orgAddr) =>
                   /\ mem'[e.orgAddr] = Stub(e.mockAddr)
                   /\ \E j \in 1..Len(expectations') :
                         /\ expectations'[j].orgAddr = e.orgAddr
                         /\ expectations'[j].mockAddr = e.mockAddr
                         /\ expectations'[j].expCount = Always
                         /\ expectations'[j].actCount >= e.actCount
      ]_vars

\* an Always override has recorded calls and outlived the chain override of
\* another Target, which the last call used up
C7_Witness ==
    /\ last.op = "Call" /\ last.result = "ok" /\ last.mock \in Mocks
    /\ Len(expectations) = 1
    /\ expectations[1].expCount = Always
    /\ expectations[1].actCount > 0
    /\ expectations[1].orgAddr # last.org
    /\ mem[last.org] = Orig(last.org)
    /\ mem[expectations[1].orgAddr] = Stub(expectations[1].mockAddr)

\* C8: Override(T, Always) panics when the list holds any override of T,
\* installed or pending, and Override(T, count) panics for every valid
\* count when the list holds an Always override of T; neither changes the
\* list or the bytes.
C8_AlwaysConflictRejected ==
    [][(/\ last'.op = "Override"
        /\ \E i \in 1..Len(expectations) :
              /\ expectations[i].orgAddr = last'.org
              /\ (last'.count = Always \/ expectations[i].expCount = Always))
       => /\ last'.result \in {"panic: cannot Always override",
                               "panic: previously overridden with Always"}
          /\ expectations' = expectations
          /\ mem' = mem
      ]_vars

\* Override(T, Always) was rejected because of a pending chain override of T
C8_Witness ==
    /\ last.op = "Override"
    /\ last.result = "panic: cannot Always override"
    /\ last.count = Always
    /\ \E i \in 1..Len(expectations) :
          /\ expectations[i].orgAddr = last.org
          /\ ~Installed(expectations[i])

\* C9: Override panics with "Invalid count" exactly for the counts that are
\* zero or negative and neither Unlimited nor Always, changing nothing; a
\* positive count or a sentinel is accepted for a Target that has no
\* override yet.
C9_InvalidCountRejected ==
    [][last'.op = "Override" =>
          LET count == last'.count IN
          /\ last'.result = "panic: Invalid count" <=>
                (count <= 0 /\ count \notin {Unlimited, Always})
          /\ last'.result = "panic: Invalid count" =>
                expectations' = expectations /\ mem' = mem
          /\ ((count > 0 \/ count \in {Unlimited, Always})
              /\ \A i \in 1..Len(expectations) :
                    expectations[i].orgAddr # last'.org) =>
                /\ last'.result = "ok"
                /\ Len(expectations') = Len(expectations) + 1
                /\ expectations'[Len(expectations')].expCount = count
      ]_vars

\* a negative count below both sentinels was rejected
C9_Witness ==
    /\ last.op = "Override"
    /\ last.result = "panic: Invalid count"
    /\ last.count < minOccurenceCount

\* the chain head of the list is an Unlimited override
UnlimitedHead(exps) ==
    /\ ChainHead(exps) <= Len(exps)
    /\ exps[ChainHead(exps)].expCount = Unlimited

\* the chain head of exps, if any, is installed in memory m
HeadInstalled(exps, m) ==
    ChainHead(exps) <= Len(exps) =>
       /\ Installed(exps[ChainHead(exps)])
       /\ m[exps[ChainHead(exps)].orgAddr] = Stub(exps[ChainHead(exps)].mockAddr)

\* the Unlimited head e of the list is still the head after the step
StaysHead(e) ==
    /\ UnlimitedHead(expectations')
    /\ expectations'[ChainHead(expectations')].orgAddr = e.orgAddr
    /\ expectations'[ChainHead(expectations')].mockAddr = e.mockAddr
    /\ expectations'[ChainHead(expectations')].actCount >= e.actCount
    /\ mem'[e.orgAddr] = Stub(e.mockAddr)

\* C10 as stated: while an Unlimited override is the chain head, its Target
\* holds the jump to its mock and no override registered after it is
\* installed; it stays the head through every step of the session but
\* Reset and ResetAll of its Target, which install the next chain entry.
C10_NothingBehindUnlimitedInstalled ==
    [][UnlimitedHead(expectations) =>
          LET h == ChainHead(expectations)
              e == expectations[h]
          IN /\ mem[e.orgAddr] = Stub(e.mockAddr)
             /\ \A j \in (h + 1)..Len(expectations) :
                   ~Installed(expectations[j])
             /\ IF last'.op \in {"Reset", "ResetAll"} /\ last'.org = e.orgAddr
                THEN HeadInstalled(expectations', mem')
                ELSE last'.op # "ExpectationsWereMet" => StaysHead(e)
      ]_vars

\* C10 amended: as C10, for the non-Always overrides registered after the
\* Unlimited head (an Always override is installed wherever it is).
C10_NoChainEntryBehindUnlimitedInstalled ==
    [][UnlimitedHead(expectations) =>
          LET h == ChainHead(expectations)
              e == expectations[h]
          IN /\ mem[e.orgAddr] = Stub(e.mockAddr)
             /\ \A j \in (h + 1)..Len(expectations) :
                   expectations[j].expCount # Always =>
                      ~Installed(expectations[j])
             /\ IF last'.op \in {"Reset", "ResetAll"} /\ last'.org = e.orgAddr
                THEN HeadInstalled(expectations', mem')
                ELSE last'.op # "ExpectationsWereMet" => StaysHead(e)
      ]_vars

\* an Unlimited head has recorded MaxCalls calls and the override registered
\* behind it is still not installed
C10_Witness ==
    /\ last.op = "Call" /\ last.result = "ok"
    /\ Len(expectations) = 2
    /\ expectations[1].expCount = Unlimited
    /\ expectations[1].actCount = MaxCalls
    /\ expectations[2].expCount # Always
    /\ ~Installed(expectations[2])
    /\ mem[expectations[1].orgAddr] = Stub(expectations[1].mockAddr)

\* the entries of a and b agree in Target, replacement, quota and count
SameOverrides(a, b) ==
    /\ Len(a) = Len(b)
    /\ \A j \in 1..Len(a) :
          /\ a[j].orgAddr = b[j].orgAddr
          /\ a[j].mockAddr = b[j].mockAddr
          /\ a[j].expCount = b[j].expCount
          /\ a[j].actCount = b[j].actCount

\* C11: Reset(X) removes exactly the first override of X and keeps every
\* other entry, later overrides of X included, in order; if the removed entry
\* was the installed chain head, X is back at its original bytes (or holds
\* the jump of the next chain entry when that one overrides X too) and the
\* next chain entry, if any, is installed.
C11_ResetRemovesFirstAndAdvances ==
    [][(last'.op = "Reset" /\ FirstFor(expectations, last'.org) # 0) =>
          LET i == FirstFor(expectations, last'.org)
              e == expectations[i]
              rest == Delete(expectations, i)
          IN /\ SameOverrides(expectations', rest)
             /\ (Installed(e) /\ e.expCount # Always) =>
                   /\ mem'[e.orgAddr] = HeadOrOriginal(rest, e.orgAddr)
                   /\ HeadInstalled(expectations', mem')
      ]_vars

\* the entries of exps that do not override f, in order
OtherTargets(exps, f) ==
    LET NotF(e) == e.orgAddr # f IN SelectSeq(exps, NotF)

\* C12: after ResetAll(X) the list holds the overrides of the other Targets,
\* in their order and with their counts, and none of X; X holds its original
\* bytes; the first remaining non-Always override, if any, is installed.
C12_ResetAllRemovesEveryOverride ==
    [][last'.op = "ResetAll" =>
          /\ SameOverrides(expectations',
                           OtherTargets(expectations, last'.org))
          /\ mem'[last'.org] = Orig(last'.org)
          /\ HeadInstalled(expectations', mem')
      ]_vars

\* the override at index i of exps is in effect: an Always override or the
\* chain head
Effective(exps, i) == exps[i].expCount = Always \/ i = ChainHead(exps)

\* the step is one call of Expectation(), made by the function last'.mock
SingleExpectation ==
    \/ last'.op = "Expectation"
    \/ last'.op = "Call" /\ last'.count = 1 /\ last'.mock \in Mocks

\* C13: Expectation() returns a handle only if its caller is the replacement
\* of an override in effect; when no override in effect has the caller as its
\* replacement (none has it at all, or only pending ones) it panics and
\* leaves the list, the call-counts and the bytes as they were.
C13_ExpectationOnlyFromEffectiveMock ==
    [][SingleExpectation =>
          LET fromEffective ==
                 \E i \in 1..Len(expectations) :
                    /\ expectations[i].mockAddr = last'.mock
                    /\ Effective(expectations, i)
          IN /\ last'.result = "ok" => fromEffective
             /\ ~fromEffective =>
                   /\ last'.result \in {"panic: not from mock function",
                                        "panic: unexpected function call"}
                   /\ expectations' = expectations
                   /\ mem' = mem
      ]_vars

\* a mock whose only override is pending called Expectation() and panicked
C13_Witness ==
    /\ last.op \in {"Expectation", "Call"}
    /\ last.result = "panic: unexpected function call"
    /\ \E i \in 1..Len(expectations) : expectations[i].mockAddr = last.mock
    /\ \A i \in 1..Len(expectations) :
          expectations[i].mockAddr = last.mock =>
             ~Installed(expectations[i]) /\ expectations[i].actCount = 0

\* the step is an orphan invocation: one call of Expectation() by a function
\* that is the replacement of no override in effect
OrphanInvocation ==
    /\ SingleExpectation
    /\ \A i \in 1..Len(expectations) :
          expectations[i].mockAddr = last'.mock =>
             ~Effective(expectations, i)

\* C14 as stated: an orphan invocation is not raised where it happens (it is
\* kept for the result of ExpectationsWereMet).
C14_OrphanInvocationNotRaised ==
    [][OrphanInvocation => last'.result = "ok"]_vars

\* C14 amended: an orphan invocation panics where it happens and records
\* nothing, and the error of ExpectationsWereMet holds nothing but
\* deficiencies of non-Always overrides that are in the list.
C14_OrphanInvocationPanicsUnrecorded ==
    [][/\ OrphanInvocation =>
             /\ last'.result \in {"panic: not from mock function",
                                  "panic: unexpected function call"}
             /\ expectations' = expectations
             /\ mem' = mem
       /\ last'.op = "ExpectationsWereMet" =>
             \A k \in 1..Len(last'.err) :
                \E i \in 1..Len(expectations) :
                   /\ expectations[i].expCount # Always
                   /\ last'.err[k] = Deficiency(expectations[i])
      ]_vars

\* a call of a function reached, through a jump no override of the list
\* accounts for, a replacement that called Expectation() and panicked
C14_Witness ==
    /\ last.op = "Call"
    /\ last.org \in Funcs
    /\ last.mock \in Mocks
    /\ last.result = "panic: not from mock function"
    /\ mem[last.org] = Stub(last.mock)
    /\ \A i \in 1..Len(expectations) : expectations[i].mockAddr # last.mock

\* f is called, reaches the mock of the chain head, which overrides f with a
\* fixed quota, and the call of Expectation() this starts brings the head's
\* count to its quota
ExhaustingCall(f) ==
    /\ ChainHead(expectations) <= Len(expectations)
    /\ LET h == ChainHead(expectations)
           e == expectations[h]
       IN /\ e.orgAddr = f
          /\ Fixed(e)
          /\ e.actCount = e.expCount - 1
          /\ mem[f] = Stub(e.mockAddr)
          /\ ExpectationMatch(expectations, e.mockAddr) = h

\* C15: when the call of Expectation() that brings a fixed-N override to N
\* returns, the Target is restored and the next chain member installed: a call
\* of the Target later in the same mock body lands in the original function,
\* or in the next member's mock if that member overrides the Target too, and
\* if the body panics instead the chain has advanced all the same.
C15_AdvancedWhenExpectationReturns ==
    [][(last'.op = "CallThen" /\ ExhaustingCall(last'.org)) =>
          LET f == last'.org
              rest == Delete(expectations, ChainHead(expectations))
          IN IF last'.result = "panic: mock body"
             THEN /\ SameOverrides(expectations', rest)
                  /\ mem'[f] = HeadOrOriginal(rest, f)
                  /\ HeadInstalled(expectations', mem')
             ELSE last'.inner = Route([mem EXCEPT ![f] = HeadOrOriginal(rest, f)], f)
      ]_vars

\* C16: ExpectationsWereMet with a list that holds one override, of T with
\* quota N and k < N recorded calls, returns ErrExpectationsNotMet joined
\* with exactly one line, which names T and says "was not called" for k = 0
\* and states k and N otherwise; with an empty list (the override was used
\* up) it returns nil.
C16_SingleDeficiencyReported ==
    [][last'.op = "ExpectationsWereMet" =>
          /\ (Len(expectations) = 1 /\ Fixed(expectations[1])) =>
                LET e == expectations[1] IN
                /\ e.actCount < e.expCount
                /\ last'.result = "ErrExpectationsNotMet"
                /\ last'.err =
                      IF e.actCount = 0
                      THEN <<[orgName |-> e.orgAddr, text |-> "was not called"]>>
                      ELSE <<[orgName |-> e.orgAddr, text |-> "was called",
                              actCount |-> e.actCount, expCount |-> e.expCount]>>
          /\ Len(expectations) = 0 =>
                last'.result = "nil" /\ last'.err = <<>>
      ]_vars

\* teardown reported one override called once instead of twice
C16_Witness ==
    /\ last.op = "ExpectationsWereMet"
    /\ last.result = "ErrExpectationsNotMet"
    /\ Len(last.err) = 1
    /\ last.err[1].text = "was called"
    /\ last.err[1].actCount = 1
    /\ last.err[1].expCount = 2
    /\ \A f \in Funcs : mem[f] = Orig(f)

\* the entry at index i of exps is the last non-Always entry of exps
LastOfChain(exps, i) ==
    /\ exps[i].expCount # Always
    /\ \A j \in (i + 1)..Len(exps) : exps[j].expCount = Always

\* C17: when every override left in the list is an Always override or an
\* Unlimited override that is the last member of the chain, in whatever order
\* they were registered and whatever their counts, ExpectationsWereMet
\* returns nil.
C17_AlwaysAndLastUnlimitedNotReported ==
    [][(/\ last'.op = "ExpectationsWereMet"
        /\ \A i \in 1..Len(expectations) :
              \/ expectations[i].expCount = Always
              \/ /\ expectations[i].expCount = Unlimited
                 /\ LastOfChain(expectations, i))
       => last'.result = "nil" /\ last'.err = <<>>
      ]_vars

\* C18: the bytes an installed override has saved are the Target's own
\* prologue, never a jump, and a function holds a jump only while an
\* installed override of it accounts for that jump: whenever an override is
\* uninstalled, in any session, its Target is back at the bytes it held
\* before any override was installed on it.
C18_SavedBytesAreOriginal ==
    /\ \A i \in 1..Len(expectations) :
          Installed(expectations[i]) =>
             expectations[i].orgPrologue = Orig(expectations[i].orgAddr)
    /\ \A f \in Funcs :
          \/ mem[f] = Orig(f)
          \/ \E i \in 1..Len(expectations) :
                /\ expectations[i].orgAddr = f
                /\ Installed(expectations[i])
                /\ mem[f] = Stub(expectations[i].mockAddr)

\* C19: the handle returned by the k-th recorded invocation of an override
\* reports RunNumber k - 1: the number of invocations recorded for that
\* override before this one, also when this one uses up the quota and
\* removes the override.
C19_RunNumberIsZeroBased ==
    [][(SingleExpectation /\ last'.result = "ok") =>
          LET i == ExpectationMatch(expectations, last'.mock)
          IN /\ i > 0
             /\ last'.run = expectations[i].actCount
             /\ Fixed(expectations[i]) =>
                   last'.run \in 0..(expectations[i].expCount - 1)
      ]_vars

\* the second and last invocation of a fixed-2 override reported RunNumber 1
\* and removed the override
C19_Witness ==
    /\ last.op = "Call" /\ last.result = "ok" /\ last.count = 1
    /\ last.run = 1
    /\ Len(expectations) = 0
    /\ mem[last.org] = Orig(last.org)

\* C20: a call that reaches a mock whose body does not call Expectation()
\* changes neither the list, the counts nor the bytes, so the override stays
\* installed and no later entry becomes effective; and ExpectationsWereMet
\* reports every fixed override with no recorded call as not called.
C20_UncountedCallsReportedNotCalled ==
    [][/\ (last'.op = "Call" /\ last'.count = 0 /\ last'.mock \in Mocks) =>
             expectations' = expectations /\ mem' = mem
       /\ last'.op = "ExpectationsWereMet" =>
             \A i \in 1..Len(expectations) :
                (Fixed(expectations[i]) /\ expectations[i].actCount = 0) =>
                   \E k \in 1..Len(last'.err) :
                      last'.err[k] = [orgName |-> expectations[i].orgAddr,
                                      text |-> "was not called"]
      ]_vars

\* C21: Reset(X) and ResetAll(X) for a function X that no entry of the list
\* overrides leave the list, with every count and saved prologue, and the
\* bytes of every function as they were.
C21_ResetOfNotOverriddenIsNoOp ==
    [][(/\ last'.op \in {"Reset", "ResetAll"}
        /\ \A i \in 1..Len(expectations) :
              expectations[i].orgAddr # last'.org)
       => expectations' = expectations /\ mem' = mem
      ]_vars

\* Reset or ResetAll of a function with no override returned while another
\* function's override, with recorded calls, is installed
C21_Witness ==
    /\ last.op \in {"Reset", "ResetAll"}
    /\ last.removed = <<>>
    /\ Len(expectations) > 0
    /\ \A i \in 1..Len(expectations) : expectations[i].orgAddr # last.org
    /\ mem[last.org] = Orig(last.org)
    /\ Installed(expectations[1])
    /\ expectations[1].actCount > 0
    /\ mem[expectations[1].orgAddr] = Stub(expectations[1].mockAddr)

\* C22: Reset(X) whose first override of X is pending deletes that entry and
\* nothing else: every other entry, the installed chain head with its count
\* and saved prologue included, and the bytes of every function are as
\* before.
C22_ResetOfPendingRemovesOnlyIt ==
    [][(/\ last'.op = "Reset"
        /\ \E i \in 1..Len(expectations) :
              /\ expectations[i].orgAddr = last'.org
              /\ \A j \in 1..(i - 1) : expectations[j].orgAddr # last'.org
              /\ ~Installed(expectations[i]))
       => LET i == CHOOSE i \in 1..Len(expectations) :
                      /\ expectations[i].orgAddr = last'.org
                      /\ \A j \in 1..(i - 1) :
                            expectations[j].orgAddr # last'.org
          IN /\ expectations' = Delete(expectations, i)
             /\ mem' = mem
      ]_vars

\* Reset removed a pending override while the chain head, with a recorded
\* call, stayed installed
C22_Witness ==
    /\ last.op = "Reset"
    /\ Len(last.removed) = 1
    /\ ~Installed(last.removed[1])
    /\ last.removed[1].expCount # Always
    /\ Len(expectations) = 1
    /\ Installed(expectations[1])
    /\ expectations[1].actCount > 0
    /\ mem[expectations[1].orgAddr] = Stub(expectations[1].mockAddr)

\* C23: Reset(X) and ResetAll(X), X being overridden with Always, delete that
\* entry and put X back at its original bytes; every other entry, the
\* installed chain head included, and the bytes of every other function are
\* as before.
C23_ResetOfAlwaysLeavesChain ==
    [][(/\ last'.op \in {"Reset", "ResetAll"}
        /\ \E i \in 1..Len(expectations) :
              /\ expectations[i].orgAddr = last'.org
              /\ expectations[i].expCount = Always)
       => LET i == CHOOSE i \in 1..Len(expectations) :
                      expectations[i].orgAddr = last'.org
          IN /\ expectations' = Delete(expectations, i)
             /\ mem' = [mem EXCEPT ![last'.org] = Orig(last'.org)]
      ]_vars

\* ====================================================== the patching layer
\* override and reset of override_amd64.go / override_arm64.go and
\* replacePrologue of mem_unix.go / mem_darwin.go, at the level of bytes,
\* pages and threads.

\* ------------------------------------------------------- machine integers
\* A uintptr is 64 bits wide, more than TLC's integers hold: it is kept as
\* its eight bytes, least significant first (the byte order of amd64 and
\* arm64, so binary.NativeEndian writes the bytes in this order).
Byte == 0 .. 255

\* the k low bytes of the natural number n
RECURSIVE Bytes(_, _)
Bytes(n, k) == IF k = 0 THEN <<>> ELSE <<n % 256>> \o Bytes(n \div 256, k - 1)

\* uintptr(n) of a small n
uintptr(n) == Bytes(n, 8)

\* the address hi * 2^24 + lo
Ptr(hi, lo) == Bytes(lo, 3) \o Bytes(hi, 5)

\* a + b and a - b of uintptr, wrapping as Go's unsigned arithmetic does
RECURSIVE AddCarry(_, _, _)
AddCarry(a, b, c) ==
    IF a = <<>> THEN <<>>
    ELSE LET s == Head(a) + Head(b) + c
         IN <<s % 256>> \o AddCarry(Tail(a), Tail(b), s \div 256)

Plus(a, b) == AddCarry(a, b, 0)

RECURSIVE SubBorrow(_, _, _)
SubBorrow(a, b, c) ==
    IF a = <<>> THEN <<>>
    ELSE LET d == Head(a) - Head(b) - c
         IN <<(d + 256) % 256>>
            \o SubBorrow(Tail(a), Tail(b), IF d < 0 THEN 1 ELSE 0)

Minus(a, b) == SubBorrow(a, b, 0)

\* a / d of uintptr for a small divisor d: quotient q and remainder r
RECURSIVE DivRem(_, _)
DivRem(a, d) ==
    IF a = <<>> THEN [q |-> <<>>, r |-> 0]
    ELSE LET hi == DivRem(Tail(a), d)
             cur == hi.r * 256 + Head(a)
         IN [q |-> <<cur \div d>> \o hi.q, r |-> cur % d]

Quot(a, d) == DivRem(a, d).q

\* x &^ m on the k low bits of two bytes
RECURSIVE BitAndNot(_, _, _)
BitAndNot(x, m, k) ==
    IF k = 0 \/ x = 0 THEN 0
    ELSE IF m = 0 THEN x
    ELSE (IF m % 2 = 1 THEN 0 ELSE x % 2)
         + 2 * BitAndNot(x \div 2, m \div 2, k - 1)

\* a &^ b of uintptr
AndNot(a, b) == [i \in 1 .. Len(a) |-> BitAndNot(a[i], b[i], 8)]

\* uint32(a): the low 32 bits
uint32(a) == SubSeq(a, 1, 4)

\* a < 2^24, and then its value
IsSmall(a) == \A i \in 4 .. Len(a) : a[i] = 0
Value(a) == a[1] + 256 * a[2] + 65536 * a[3]

\* ------------------------------------------------------ the redirect stub
\* override_amd64.go
jmpInstrLength == 5
jmpInstrCode_amd64 == 233
\* override_arm64.go
instrLength == 4
jmpInstrCode_arm64 == 20

Archs == {"amd64", "arm64"}

\* the length of the prologue override replaces
PrologueLength(arch) == IF arch = "amd64" THEN jmpInstrLength ELSE instrLength

\* the newPrologue override builds for a jump from orgPointer to mockPointer
newPrologue(arch, orgPointer, mockPointer) ==
    IF arch = "amd64"
    THEN LET jumpLocation ==
                 Minus(mockPointer, Plus(orgPointer, uintptr(jmpInstrLength)))
         IN <<jmpInstrCode_amd64>> \o uint32(jumpLocation)
    ELSE LET jumpLocation == Quot(Minus(mockPointer, orgPointer), instrLength)
         IN [uint32(jumpLocation) EXCEPT ![4] = jmpInstrCode_arm64]

\* ------------------------------------------------- addresses and platforms
\* the entries of two overridable functions: one inside a page, one whose
\* prologue ends at (arm64) or runs over (amd64) the end of a page
OrgAddrs == {Ptr(256, 4112), Ptr(256, 16380)}

\* the entries of the replacement functions: near the targets, at the two
\* ends of the reach of the architecture's branch, and 2^32 bytes below
MockAddrs(arch) ==
    IF arch = "amd64"
    THEN {Ptr(256, 8192), Ptr(384, 4116), Ptr(384, 4117), Ptr(0, 4112)}
    ELSE {Ptr(256, 8192), Ptr(264, 4108), Ptr(264, 4112), Ptr(0, 4112)}

NoPtr == <<>>

\* what os.Getpagesize() returns
PageSizes == {4096, 16384}

\* mem_unix.go builds for linux and the BSDs, mem_darwin.go for macOS
Platforms ==
    [arch : Archs, os : {"unix"}, pageSize : PageSizes]
    \cup {[arch |-> "amd64", os |-> "darwin", pageSize |-> 4096],
          [arch |-> "arm64", os |-> "darwin", pageSize |-> 16384]}

\* the bytes a function's entry holds in the binary
OrigPrologue(arch) == SubSeq(<<73, 59, 102, 16, 118>>, 1, PrologueLength(arch))

\* the page an address lies in, and whether an address starts a page
PageOf(a) == AndNot(a, Minus(uintptr(platform.pageSize), uintptr(1)))
Aligned(a) == PageOf(a) = a

\* the pages the prologues of the functions lie in
Pages ==
    {PageOf(Plus(a, uintptr(k))) :
         a \in OrgAddrs, k \in 0 .. PrologueLength(platform.arch) - 1}

\* the pages the kernel changes for the range [start, start + sz): those
\* that hold a byte of it
Covered(start, sz) ==
    {p \in DOMAIN prot :
        \/ IsSmall(Minus(p, start)) /\ Value(Minus(p, start)) < sz
        \/ /\ sz > 0
           /\ IsSmall(Minus(start, p))
           /\ Value(Minus(start, p)) < platform.pageSize}

Writable(a) == prot[PageOf(a)] \in {"rwx", "rw-"}
Executable(a) == prot[PageOf(a)] \in {"rwx", "r-x"}

\* func calcBoundaries(ptr unsafe.Pointer, size int) (unsafe.Pointer, uintptr)
calcBoundariesNoOffset(ptr, size) ==
    LET pageSize == uintptr(platform.pageSize)
        areaStart == AndNot(ptr, Minus(pageSize, uintptr(1)))
    IN [start |-> areaStart, sz |-> uintptr(size)]

calcBoundaries(ptr, size) ==
    LET pageSize == uintptr(platform.pageSize)
        areaStart == AndNot(ptr, Minus(pageSize, uintptr(1)))
        areaSize == Minus(Plus(ptr, uintptr(size)), areaStart)
    IN [start |-> areaStart, sz |-> areaSize]

\* unix.Mprotect(page, PROT_WRITE|PROT_READ|PROT_EXEC): errno is what the
\* kernel answers to a well-formed request
Mprotect(start, sz, errno) ==
    IF errno # "nil" THEN [err |-> errno, prot |-> prot]
    ELSE IF ~Aligned(start) THEN [err |-> "EINVAL", prot |-> prot]
    ELSE [err |-> "nil",
          prot |-> [p \in DOMAIN prot |->
                       IF p \in Covered(start, Value(sz)) THEN "rwx"
                       ELSE prot[p]]]

\* mach_vm_protect(task, dest, size, 0, to) when the kernel grants it
MachProtect(dest, size, to) ==
    [p \in DOMAIN prot |-> IF p \in Covered(dest, size) THEN to ELSE prot[p]]

\* ------------------------------------------------------ patching thread
PatchOps == {"override", "reset"}
Dead == [op |-> "dead", at |-> "exit"]

\* the first call replacePrologue makes
FirstStep == IF platform.os = "darwin" THEN "protectRW" ELSE "makeMemRX"

\* where the thread goes once replacePrologue has returned
AfterReplace == IF platform.arch = "arm64" THEN "flush_cache" ELSE "return"

\* where the thread goes once the bytes are copied
AfterCopy == IF platform.os = "darwin" THEN "protectRX" ELSE AfterReplace

\* the record of a patch that ended with result
Outcome(c, result) ==
    [op |-> c.op, ptr |-> c.ptr, mock |-> c.mock, old |-> c.old,
     buf |-> c.buf, area |-> c.area, err |-> c.err, failed |-> c.at,
     result |-> result]

\* func replacePrologue(ptr, buf), mem_unix.go: what follows the return of
\* makeMemRX with err
replacePrologueIgnoresError(c, err) ==
    [c EXCEPT !.at = "copy", !.err = err]

replacePrologue(c, err) ==
    IF err # "nil" THEN [c EXCEPT !.at = "panic", !.err = err]
    ELSE [c EXCEPT !.at = "copy", !.err = err]

PatchInit ==
    /\ platform \in Platforms
    /\ text = [a \in OrgAddrs |-> OrigPrologue(platform.arch)]
    /\ prot = [p \in Pages |-> "r-x"]
    /\ saved = [a \in OrgAddrs |-> <<>>]
    /\ cpu = IF platform.os = "darwin"
             THEN [op |-> "recreate_text_segment", at |-> "suspend"]
             ELSE NoPatch
    /\ suspended = FALSE
    /\ fetched = NoFetch
    /\ done = NoOutcome
    /\ ChainInit
    /\ SessionAtRest

\* the start of a patch of ptr with buf
Begin(op, ptr, mock, buf) ==
    /\ cpu = NoPatch
    /\ cpu' = [op |-> op, at |-> FirstStep, ptr |-> ptr, mock |-> mock,
               buf |-> buf, old |-> text[ptr], n |-> 0, err |-> "nil",
               area |-> <<>>]
    /\ fetched' = NoFetch
    /\ done' = NoOutcome
    /\ UNCHANGED <<platform, text, prot, saved, suspended>>
    /\ UNCHANGED <<chainVars, sessionVars>>

\* func override(orgPointer, mockPointer unsafe.Pointer) []byte, up to its
\* call of replacePrologue
override_arch(orgPointer, mockPointer) ==
    /\ saved[orgPointer] = <<>>
    /\ Cardinality({a \in OrgAddrs : saved[a] # <<>>}) < MaxPatched
    /\ Begin("override", orgPointer, mockPointer,
             newPrologue(platform.arch, orgPointer, mockPointer))

\* func reset(ptr unsafe.Pointer, buf []byte), up to its call of
\* replacePrologue; buf is the orgPrologue override returned
reset_arch(ptr) ==
    /\ saved[ptr] # <<>>
    /\ Begin("reset", ptr, NoPtr, saved[ptr])

\* func makeMemRX(ptr, size) error, and the check replacePrologue makes of
\* what it returns
makeMemRX(errno) ==
    /\ cpu.op \in PatchOps
    /\ cpu.at = "makeMemRX"
    /\ LET b == calcBoundaries(cpu.ptr, Len(cpu.buf))
           r == Mprotect(b.start, b.sz, errno)
           c == replacePrologue([cpu EXCEPT !.area = b], r.err)
       IN /\ prot' = r.prot
          /\ IF c.at = "panic"
             THEN /\ cpu' = NoPatch
                  /\ done' = Outcome([c EXCEPT !.at = "makeMemRX"],
                                     "panic: " \o r.err)
             ELSE /\ cpu' = c
                  /\ UNCHANGED done
    /\ UNCHANGED <<platform, text, saved, suspended>>
    /\ fetched' = NoFetch
    /\ UNCHANGED <<chainVars, sessionVars>>

\* copy(funcPrologue, buf) / mach_vm_copy(task, src, size, dest): one byte
\* of it. The store to a page that is not writable is a fault.
copy ==
    /\ cpu.op \in PatchOps
    /\ cpu.at = "copy"
    /\ LET i == cpu.n + 1
       IN IF Writable(Plus(cpu.ptr, uintptr(cpu.n)))
          THEN /\ text' = [text EXCEPT ![cpu.ptr][i] = cpu.buf[i]]
               /\ cpu' = [cpu EXCEPT
                             !.n = i,
                             !.at = IF i = Len(cpu.buf) THEN AfterCopy
                                    ELSE "copy"]
               /\ UNCHANGED done
          ELSE /\ cpu' = Dead
               /\ done' = Outcome(cpu, "SIGSEGV")
               /\ UNCHANGED text
    /\ UNCHANGED <<platform, prot, saved, suspended>>
    /\ fetched' = NoFetch
    /\ UNCHANGED <<chainVars, sessionVars>>

\* C.flush_cache(orgPointer, instrLength), override_arm64.go
flush_cache ==
    /\ cpu.op \in PatchOps
    /\ cpu.at = "flush_cache"
    /\ cpu' = [cpu EXCEPT !.at = "return"]
    /\ UNCHANGED <<platform, text, prot, saved, suspended, done>>
    /\ fetched' = NoFetch
    /\ UNCHANGED <<chainVars, sessionVars>>

\* override returns orgPrologue, reset returns
PatchReturns ==
    /\ cpu.op \in PatchOps
    /\ cpu.at = "return"
    /\ cpu' = NoPatch
    /\ saved' = [saved EXCEPT ![cpu.ptr] = IF cpu.op = "override"
                                           THEN cpu.old ELSE <<>>]
    /\ done' = Outcome(cpu, "ok")
    /\ UNCHANGED <<platform, text, prot, suspended>>
    /\ fetched' = NoFetch
    /\ UNCHANGED <<chainVars, sessionVars>>

\* --------------------------------------------------------------- macOS
\* what a Mach call returns: KERN_SUCCESS or an error
KernReturns == {"KERN_SUCCESS", "KERN_FAILURE"}

\* func replacePrologue(ptr, buf), mem_darwin.go: overwrite_prolog returned
\* a non-zero value from the step the thread is at
overwriteFails ==
    /\ cpu' = NoPatch
    /\ done' = Outcome(cpu, "panic: cannot overwrite function prologue")

\* overwrite: mach_vm_protect(task, dest, size, 0, VM_PROT_READ|VM_PROT_WRITE)
overwrite_protect(ret) ==
    /\ cpu.op \in PatchOps
    /\ cpu.at = "protectRW"
    /\ IF ret = "KERN_SUCCESS"
       THEN /\ prot' = MachProtect(cpu.ptr, Len(cpu.buf), "rw-")
            /\ cpu' = [cpu EXCEPT !.at = "copy"]
            /\ UNCHANGED done
       ELSE /\ overwriteFails
            /\ UNCHANGED prot
    /\ UNCHANGED <<platform, text, saved, suspended>>
    /\ fetched' = NoFetch
    /\ UNCHANGED <<chainVars, sessionVars>>

\* overwrite: mach_vm_copy(task, src, size, dest) returns an error
overwrite_copy_fails ==
    /\ cpu.op \in PatchOps
    /\ platform.os = "darwin"
    /\ cpu.at = "copy"
    /\ cpu.n = 0
    /\ overwriteFails
    /\ UNCHANGED <<platform, text, prot, saved, suspended>>
    /\ fetched' = NoFetch
    /\ UNCHANGED <<chainVars, sessionVars>>

\* overwrite: mach_vm_protect(task, dest, size, 0,
\* VM_PROT_READ|VM_PROT_EXECUTE), and the return to replacePrologue
overwrite_restore(ret) ==
    /\ cpu.op \in PatchOps
    /\ cpu.at = "protectRX"
    /\ IF ret = "KERN_SUCCESS"
       THEN /\ prot' = MachProtect(cpu.ptr, Len(cpu.buf), "r-x")
            /\ cpu' = [cpu EXCEPT !.at = AfterReplace]
            /\ UNCHANGED done
       ELSE /\ overwriteFails
            /\ UNCHANGED prot
    /\ UNCHANGED <<platform, text, saved, suspended>>
    /\ fetched' = NoFetch
    /\ UNCHANGED <<chainVars, sessionVars>>

\* recreate_text_segment, which init() runs through make_text_writable
\* before any test: its calls in order
RecreateSteps ==
    <<"suspend", "deallocate", "allocate", "protectRW", "copy", "protectRX",
      "resume">>

StepAfter(at) ==
    LET i == CHOOSE j \in 1 .. Len(RecreateSteps) : RecreateSteps[j] = at
    IN RecreateSteps[i + 1]

\* static int suspend_other_threads()
suspend_other_threads ==
    /\ cpu.op = "recreate_text_segment"
    /\ cpu.at = "suspend"
    /\ suspended' = TRUE
    /\ cpu' = [cpu EXCEPT !.at = StepAfter("suspend")]
    /\ UNCHANGED <<platform, text, prot, saved, done>>
    /\ fetched' = NoFetch
    /\ UNCHANGED <<chainVars, sessionVars>>

\* the Mach calls of recreate_text_segment between suspend_other_threads and
\* resume_other_threads; CHECK_ERR returns at once when a call fails, then
\* make_text_writable returns the error and init() panics
recreate_text_segment(ret) ==
    /\ cpu.op = "recreate_text_segment"
    /\ cpu.at \in {"deallocate", "allocate", "protectRW", "copy", "protectRX"}
    /\ IF ret = "KERN_SUCCESS"
       THEN /\ cpu' = [cpu EXCEPT !.at = StepAfter(cpu.at)]
            /\ prot' = [p \in DOMAIN prot |->
                           CASE cpu.at = "deallocate" -> "---"
                             [] cpu.at = "allocate" -> "rw-"
                             [] cpu.at = "protectRW" -> "rw-"
                             [] cpu.at = "copy" -> prot[p]
                             [] cpu.at = "protectRX" -> "r-x"]
            /\ text' = [a \in DOMAIN text |->
                           CASE cpu.at = "allocate" ->
                                    [i \in DOMAIN text[a] |-> 0]
                             [] cpu.at = "copy" -> OrigPrologue(platform.arch)
                             [] OTHER -> text[a]]
            /\ UNCHANGED done
       ELSE /\ cpu' = Dead
            /\ done' = [op |-> "recreate_text_segment", failed |-> cpu.at,
                        result |-> "panic: cannot make the code writable"]
            /\ UNCHANGED <<prot, text>>
    /\ UNCHANGED <<platform, saved, suspended>>
    /\ fetched' = NoFetch
    /\ UNCHANGED <<chainVars, sessionVars>>

\* static int resume_other_threads(), and the return of init()
resume_other_threads ==
    /\ cpu.op = "recreate_text_segment"
    /\ cpu.at = "resume"
    /\ suspended' = FALSE
    /\ cpu' = NoPatch
    /\ UNCHANGED <<platform, text, prot, saved, done>>
    /\ fetched' = NoFetch
    /\ UNCHANGED <<chainVars, sessionVars>>

\* ------------------------------------------------------- another thread
\* a thread of the process other than the patching one (another goroutine's
\* thread, the garbage collector's, a timer's) calls the function at a: it
\* begins to execute the bytes the entry holds at that moment, or faults
\* when a page of them is not executable or not mapped
Fetch(a) ==
    /\ cpu # Dead
    /\ ~suspended
    /\ LET len == PrologueLength(platform.arch)
           ok == \A k \in 0 .. len - 1 : Executable(Plus(a, uintptr(k)))
       IN IF ok
          THEN /\ fetched' = [ptr |-> a, bytes |-> text[a]]
               /\ UNCHANGED <<cpu, done>>
          ELSE /\ fetched' = [ptr |-> a, bytes |-> <<>>]
               /\ cpu' = Dead
               /\ done' = [op |-> "thread", during |-> cpu.op,
                           failed |-> cpu.at,
                           result |-> "fault in another thread"]
    /\ UNCHANGED <<platform, text, prot, saved, suspended>>
    /\ UNCHANGED <<chainVars, sessionVars>>

PatchNext ==
    \/ \E orgPointer \in OrgAddrs, mockPointer \in MockAddrs(platform.arch) :
          override_arch(orgPointer, mockPointer)
    \/ \E ptr \in OrgAddrs : reset_arch(ptr)
    \/ \E errno \in {"nil", "EPERM"} : makeMemRX(errno)
    \/ copy
    \/ flush_cache
    \/ PatchReturns
    \/ \E ret \in KernReturns : overwrite_protect(ret)
    \/ overwrite_copy_fails
    \/ \E ret \in KernReturns : overwrite_restore(ret)
    \/ suspend_other_threads
    \/ \E ret \in KernReturns : recreate_text_segment(ret)
    \/ resume_other_threads
    \/ \E a \in OrgAddrs : Fetch(a)

PatchSpec == PatchInit /\ [][PatchNext]_vars

\* --------------------------------------------- properties, patching layer
\* the 64-bit value d, read as signed, lies in [-2^(8k+b), 2^(8k+b)): it is
\* the sign extension of its 8k+b+1 low bits (0 <= b < 8)
RECURSIVE Pow2(_)
Pow2(b) == IF b = 0 THEN 1 ELSE 2 * Pow2(b - 1)

FitsSigned(d, k, b) ==
    \/ /\ \A i \in k + 2 .. Len(d) : d[i] = 0
       /\ d[k + 1] < Pow2(b)
    \/ /\ \A i \in k + 2 .. Len(d) : d[i] = 255
       /\ d[k + 1] >= 256 - Pow2(b)

\* the jump from orgPointer to mockPointer fits the branch of the
\* architecture: a signed 32-bit byte offset from orgPointer + 5 on amd64, a
\* signed 26-bit word offset (28-bit byte offset) from orgPointer on arm64
InReach(arch, orgPointer, mockPointer) ==
    IF arch = "amd64"
    THEN FitsSigned(Minus(mockPointer,
                          Plus(orgPointer, uintptr(jmpInstrLength))), 3, 7)
    ELSE FitsSigned(Minus(mockPointer, orgPointer), 3, 3)

\* C24: installing a redirect whose replacement is out of the reach of the
\* architecture's branch fails with a displacement-out-of-range error and
\* writes nothing to the target: no byte of the target changes while the
\* install runs, and it does not end in success.
C24_OutOfReachInstallFails ==
    /\ (cpu.op = "override" /\ ~InReach(platform.arch, cpu.ptr, cpu.mock))
           => text[cpu.ptr] = cpu.old
    /\ (done.op = "override" /\ ~InReach(platform.arch, done.ptr, done.mock))
           => (text[done.ptr] = done.old /\ done.result # "ok")

\* the addresses of the bytes a patch of r.ptr with r.buf writes
Touched(r) == {Plus(r.ptr, uintptr(k)) : k \in 0 .. Len(r.buf) - 1}

\* C25: when the operating system refuses the change of protection,
\* replacePrologue panics before it copies: the thread never goes on past a
\* refused makeMemRX, and the patch ends in a panic with every byte of the
\* target as it was.
C25_RefusedProtectionPanicsBeforeCopy ==
    /\ (cpu.op \in PatchOps /\ cpu.at \notin {"makeMemRX", "protectRW"})
           => cpu.err = "nil"
    /\ (done.op \in PatchOps /\ done.failed \in {"makeMemRX", "protectRW"})
           => /\ done.result \in {"panic: EPERM", "panic: EINVAL",
                                  "panic: cannot overwrite function prologue"}
              /\ text[done.ptr] = done.old

\* a reset is refused on a page an earlier override left writable: a copy
\* would have gone through
C25_Witness ==
    /\ done.op = "reset"
    /\ done.failed = "makeMemRX"
    /\ done.result = "panic: EPERM"
    /\ \A a \in Touched(done) : Writable(a)
    /\ text[done.ptr] = done.old
    /\ text[done.ptr] # done.buf

\* the area r.area is right for the range of r: it starts at r.ptr rounded
\* down to a page boundary and ends where the range ends
AreaRight(r) ==
    LET start == r.area.start
        offset == Minus(r.ptr, start)
    IN /\ Value(SubSeq(start, 1, 3)) % platform.pageSize = 0
       /\ IsSmall(offset)
       /\ Value(offset) < platform.pageSize
       /\ Plus(start, r.area.sz) = Plus(r.ptr, uintptr(Len(r.buf)))

\* C26: calcBoundaries returns p rounded down to a page boundary and the
\* size p + n - start, and the protection change made with them covers every
\* page the range [p, p + n) touches: once makeMemRX has succeeded every
\* byte of the range is writable.
C26_BoundariesCoverTouchedPages ==
    /\ (cpu.op \in PatchOps /\ cpu.area # <<>>)
           => (AreaRight(cpu) /\ \A a \in Touched(cpu) : Writable(a))
    /\ (done.op \in PatchOps /\ done.area # <<>>) => AreaRight(done)

\* a prologue that runs over the end of a page: the area spans two pages
C26_Witness ==
    /\ done.op = "override"
    /\ done.result = "ok"
    /\ done.area # <<>>
    /\ Value(done.area.sz) > platform.pageSize
    /\ PageOf(done.ptr) # PageOf(Plus(done.ptr, uintptr(Len(done.buf) - 1)))
    /\ text[done.ptr] = done.buf

\* a prologue that ends exactly at the end of a page
C26_EndOfPage ==
    /\ done.op = "override"
    /\ done.result = "ok"
    /\ done.area # <<>>
    /\ Value(done.area.sz) = platform.pageSize

\* C27: after every completed patch (install or restore) the protection of
\* the patched region is back to executable and not writable.
C27_ProtectionRestoredAfterPatch ==
    (done.op \in PatchOps /\ done.result = "ok")
        => \A a \in Touched(done) : prot[PageOf(a)] = "r-x"

\* C28: on macOS, during every patch the other threads are suspended from
\* before the first change of protection until execute permission is back.
C28_ThreadsSuspendedDuringEveryPatch ==
    (/\ platform.os = "darwin"
     /\ cpu.op \in PatchOps
     /\ cpu.at \in {"copy", "protectRX"})
        => suspended

\* the prologues the entry at a holds between patches
WholePrologues(a) ==
    {OrigPrologue(platform.arch)}
    \cup {newPrologue(platform.arch, a, m) : m \in MockAddrs(platform.arch)}

\* C29: no thread begins to execute a target whose entry holds a mix of old
\* and new bytes.
C29_NoThreadExecutesPartialStub ==
    fetched.bytes # <<>> => fetched.bytes \in WholePrologues(fetched.ptr)

\* ================================================ the Mock/Series interface
\* mock.go (New, Override, Mock.ExpectationsWereMet, Expectation) and
\* series.go (NewSeries, Override, Series.ExpectationsWereMet): one global
\* object holds the chain of expected calls, and only its first entry is
\* installed.

\* the interface the build has
Apis == {"Mock", "Series"}
Constructor(api) == IF api = "Mock" THEN "New" ELSE "NewSeries"

\* the counts the tests pass to Override
SessionCounts == {0, Once, 2, Unlimited}

SessionInit ==
    /\ global \in [api : Apis, expected : {<<>>}]
    /\ patched = [f \in Funcs |-> NotMock]
    /\ session = NoSession
    /\ ChainInit
    /\ PatchAtRest

\* session.open: a session has been created and not finalised since;
\* session.wasOpen and session.pending: that, and the length of the chain,
\* when the call recorded in session began
Called(op, result, open) ==
    [op |-> op, result |-> result, open |-> open, wasOpen |-> session.open,
     pending |-> Len(global.expected)]

\* func New(ctx, t) *Mock / func NewSeries(ctx, t) *Series
New ==
    /\ IF Len(global.expected) # 0
       THEN /\ session' = Called(Constructor(global.api),
                                 "panic: Other instance is active",
                                 session.open)
            /\ UNCHANGED global
       ELSE /\ global' = [global EXCEPT !.expected = <<>>]
            /\ session' = Called(Constructor(global.api), "ok", TRUE)
    /\ UNCHANGED patched
    /\ UNCHANGED <<chainVars, patchVars>>

\* func Override[T any](count int, org, mock T) T, called by a test that
\* holds a session
MockOverride(org, count, mock) ==
    LET expected == global.expected
        res == IF Len(expected) > 0
                  /\ expected[Len(expected)].expCount = Unlimited
               THEN "panic: previous override is unlimited"
               ELSE IF count <= 0 /\ count # Unlimited
               THEN "panic: Invalid count"
               ELSE "ok"
        first == Len(expected) = 0
        expectedCall ==
            [expCount |-> count, actCount |-> 0, mockAddr |-> mock,
             orgAddr |-> org,
             orgPrologue |-> IF first THEN Orig(org) ELSE NilPrologue]
    IN /\ session.open
       /\ IF res = "ok"
          THEN /\ Len(expected) < MaxLen
               /\ global' = [global EXCEPT
                                !.expected = Append(expected, expectedCall)]
               /\ patched' = IF first THEN [patched EXCEPT ![org] = mock]
                             ELSE patched
          ELSE UNCHANGED <<global, patched>>
       /\ session' = Called("Override", res, session.open)
       /\ UNCHANGED <<chainVars, patchVars>>

\* the program calls f; when its entry leads to a mock, the mock calls
\* func Expectation() *Expect (the Mock interface) and returns
MockCall(f) ==
    LET expected == global.expected
        entry == patched[f]
        e == [expected[1] EXCEPT !.actCount = @ + 1]
        exhausted == e.actCount = e.expCount /\ e.expCount # Unlimited
        rest == Tail(expected)
        next == IF rest = <<>> THEN rest
                ELSE <<[rest[1] EXCEPT !.orgPrologue = Orig(rest[1].orgAddr)]>>
                     \o Tail(rest)
        unpatched == [patched EXCEPT ![e.orgAddr] = NotMock]
    IN /\ session.open
       /\ global.api = "Mock"
       /\ entry \in Mocks
       /\ IF Len(expected) = 0
          THEN /\ session' = Called("Call", "Errorf: unexpected function call",
                                    session.open)
               /\ UNCHANGED <<global, patched>>
          ELSE /\ e.expCount = Unlimited => e.actCount <= MaxCalls
               /\ global' = [global EXCEPT
                                !.expected = IF exhausted THEN next
                                             ELSE <<e>> \o rest]
               /\ patched' =
                      IF ~exhausted THEN patched
                      ELSE IF rest = <<>> THEN unpatched
                      ELSE [unpatched EXCEPT
                               ![rest[1].orgAddr] = rest[1].mockAddr]
               /\ session' =
                      Called("Call",
                             IF e.mockAddr # entry
                             THEN "Errorf: unexpected function call"
                             ELSE "ok",
                             session.open)
       /\ UNCHANGED <<chainVars, patchVars>>

\* func (m *Mock) ExpectationsWereMet() error /
\* func (s *Series) ExpectationsWereMet() error
MockExpectationsWereMet ==
    LET expected == global.expected
    IN /\ session.open
       /\ global' = [global EXCEPT !.expected = <<>>]
       /\ patched' = IF Len(expected) # 0
                        /\ Len(expected[1].orgPrologue) > 0
                     THEN [patched EXCEPT ![expected[1].orgAddr] = NotMock]
                     ELSE patched
       /\ session' =
              Called("ExpectationsWereMet",
                     IF Len(expected) # 0 /\ expected[1].expCount # Unlimited
                     THEN "some expectations weren't met"
                     ELSE "nil",
                     FALSE)
       /\ UNCHANGED <<chainVars, patchVars>>

SessionNext ==
    \/ New
    \/ \E org \in Funcs, count \in SessionCounts, mock \in Mocks :
          MockOverride(org, count, mock)
    \/ \E f \in Funcs : MockCall(f)
    \/ MockExpectationsWereMet

SessionSpec == SessionInit /\ [][SessionNext]_vars

\* ------------------------------------- properties, Mock/Series interface
\* C30: at most one session is open at a time: New (NewSeries) panics
\* whenever a session created earlier has not been finalised with
\* ExpectationsWereMet, whatever that session registered or consumed.
C30_SecondSessionPanics ==
    (session.op \in {"New", "NewSeries"} /\ session.wasOpen)
        => session.result = "panic: Other instance is active"

\* ------------------------------------------------- end of the test function
\* C31: overrides registered with a context from TestingContext(t) are reset
\* automatically when the test ends: once the test function has returned the
\* list is empty and every function holds its original bytes, whatever the
\* test called before.
C31_TestEndResetsOverrides ==
    last.op = "TestEnds" =>
        /\ expectations = <<>>
        /\ \A f \in Funcs : mem[f] = Orig(f)

\* --------------------------------- two calls of Expectation() in one body
\* C32: when a function is called whose replacement was registered with
\* count Once and is the effective override, and the replacement's body calls
\* Expectation() twice, both calls succeed with the handle of that one
\* override (RunNumber 0) and the invocation uses up exactly that override.
C32_TwoExpectationCallsInOneInvocation ==
    [][(/\ last'.op = "Call"
        /\ last'.count = 2
        /\ LET order == ExpectationMatch(expectations, last'.mock)
           IN /\ order > 0
              /\ expectations[order].expCount = Once
              /\ expectations[order].orgAddr = last'.org
              /\ Effective(expectations, order))
       => /\ last'.result = "ok"
          /\ last'.run = 0
          /\ Len(expectations') = Len(expectations) - 1]_vars

\* ------------------------------------------- the installed set of a session
\* the function f starts with the jump to mock k
RedirectedTo(f, k) == mem[f] = Stub(k)

\* some effective entry of the list (an Always entry or the first non-Always
\* entry) overrides f with mock k
EffectiveOverride(f, k) ==
    \E i \in 1..Len(expectations) :
        /\ Effective(expectations, i)
        /\ expectations[i].orgAddr = f
        /\ expectations[i].mockAddr = k

\* the operations of a session other than its teardown
SessionOperations == {"Override", "Call", "CallThen", "Expectation", "Reset",
                      "ResetAll"}

\* C33: after each successful operation of a session, before its teardown,
\* the redirects present in the functions are exactly those of the Always entries
\* and of the first non-Always entry of the list, and an entry holds saved
\* bytes, which are then the original bytes of its function, if and only if
\* it is one of these entries.
C33_InstalledSetIsAlwaysPlusHead ==
    (last.op \in SessionOperations /\ last.result = "ok") =>
        /\ \A f \in Funcs, k \in Mocks :
              RedirectedTo(f, k) <=> EffectiveOverride(f, k)
        /\ \A i \in 1..Len(expectations) :
              /\ Installed(expectations[i]) <=> Effective(expectations, i)
              /\ Installed(expectations[i]) =>
                    expectations[i].orgPrologue = Orig(expectations[i].orgAddr)

\* ------------------------------------------ one replacement for two targets
\* the index of the effective override of f by mock k in exps, or 0
EffectiveIndex(exps, f, k) ==
    IF \E i \in 1..Len(exps) : /\ Effective(exps, i)
                               /\ exps[i].orgAddr = f
                               /\ exps[i].mockAddr = k
    THEN CHOOSE i \in 1..Len(exps) : /\ Effective(exps, i)
                                     /\ exps[i].orgAddr = f
                                     /\ exps[i].mockAddr = k
    ELSE 0

\* some override of another function than f uses mock k as well
SharedMock(exps, f, k) ==
    \E j \in 1..Len(exps) : exps[j].mockAddr = k /\ exps[j].orgAddr # f

\* C34: when f is called while its effective override uses a mock that an
\* override of another function uses too, and the mock calls Expectation()
\* once, the call is counted against the override of f: the handle returned is
\* that override after its count went up by one, and the overrides of the
\* other functions keep their counts and stay in the list.
C34_SharedMockCountsAgainstCalledTarget ==
    [][(/\ last'.op = "Call"
        /\ last'.count = 1
        /\ EffectiveIndex(expectations, last'.org, last'.mock) > 0
        /\ SharedMock(expectations, last'.org, last'.mock))
       => LET i == EffectiveIndex(expectations, last'.org, last'.mock)
          IN /\ last'.result = "ok"
             /\ last'.run = expectations[i].actCount
             /\ SameOverrides(OtherTargets(expectations', last'.org),
                              OtherTargets(expectations, last'.org))]_vars

\* ------------------------------------------------------ rejected Override
\* count is neither a positive number nor Unlimited nor Always
BadCount(count) == count <= 0 /\ count \notin {Unlimited, Always}

\* C35: a call of Override that is rejected (it panicked, or its count is
\* invalid, or an argument is malformed) changes nothing: the list with all
\* counts and saved bytes and the bytes of every function are as before.
C35_RejectedOverrideChangesNothing ==
    [][(\/ /\ last'.op = "Override"
           /\ (last'.result # "ok" \/ BadCount(last'.count))
        \/ last'.op = "OverrideMalformed")
       => /\ last'.result # "ok"
          /\ expectations' = expectations
          /\ mem' = mem]_vars

\* Override was rejected for a conflict while the list held an installed
\* override with recorded calls behind which another one was pending
C35_Witness ==
    /\ last.op = "Override"
    /\ last.result = "panic: previously overridden with Always"
    /\ Len(expectations) = 2
    /\ \E i \in 1..Len(expectations) :
          /\ expectations[i].actCount > 0
          /\ mem[expectations[i].orgAddr] = Stub(expectations[i].mockAddr)

\* ------------------------------------------------------ repeated teardown
\* C36: ExpectationsWereMet leaves the list empty whatever it returns, and a
\* call of it that finds the list empty, as a call repeated right after
\* another does, returns nil and changes no byte of any function.
C36_TeardownEmptiesListAndRepeats ==
    [][last'.op = "ExpectationsWereMet" =>
          /\ expectations' = <<>>
          /\ expectations = <<>> =>
                /\ last'.result = "nil"
                /\ mem' = mem]_vars

\* ExpectationsWereMet has returned nil for an empty list in a session that
\* began, right after an earlier teardown, with a function still redirected
C36_Witness ==
    /\ last.op = "ExpectationsWereMet"
    /\ last.entries = 0
    /\ last.result = "nil"
    /\ expectations = <<>>
    /\ sessionMem = mem
    /\ \E f \in Funcs : Redirected(f)

\* ------------------------------------------- a chain of fixed quotas used up
\* every entry of exps has a fixed quota
AllFixed(exps) == \A i \in 1..Len(exps) : exps[i].expCount > 0

\* the session began with every function at its original bytes, as every
\* session does when no Always override was registered before it
StartedUnpatched == \A f \in Funcs : SessionStart[f] = Orig(f)

\* the entries of exps without their saved bytes
Registered(exps) ==
    [i \in 1..Len(exps) |-> [exps[i] EXCEPT !.orgPrologue = NilPrologue]]

SignExtend(v, b) ==
    LET top == v[4] % Pow2(b)
        neg == top >= Pow2(b - 1)
    IN <<v[1], v[2], v[3], top + (IF neg THEN 256 - Pow2(b) ELSE 0)>>
       \o [i \in 1..4 |-> IF neg THEN 255 ELSE 0]

\* the address the processor goes to when it executes the instruction stub
\* placed at address a. amd64, JMP rel32: E9 followed by a signed 32-bit
\* offset counted from the end of the instruction. arm64, B: the top six bits
\* are 000101 and the low 26 bits are a signed offset in words counted from
\* the instruction. NoPtr if stub is not that instruction.
BranchTarget(arch, a, stub) ==
    IF arch = "amd64"
    THEN IF stub[1] # jmpInstrCode_amd64 THEN NoPtr
         ELSE Plus(Plus(a, uintptr(jmpInstrLength)),
                   SignExtend(SubSeq(stub, 2, 5), 8))
    ELSE IF stub[4] \div 4 # jmpInstrCode_arm64 \div 4 THEN NoPtr
         ELSE LET words == SignExtend(stub, 2)
                  twice == Plus(words, words)
              IN Plus(a, Plus(twice, twice))

\* C38: after override has written its stub at a function whose replacement
\* is within the reach of the architecture's branch, above or below it, the
\* stub executed at the function goes to exactly the replacement.
C38_StubBranchesToReplacement ==
    (/\ done.op = "override"
     /\ done.result = "ok"
     /\ InReach(platform.arch, done.ptr, done.mock))
    => BranchTarget(platform.arch, done.ptr, text[done.ptr]) = done.mock

\* ------------------------------------------------ threads resumed on return
\* C39: once recreate_text_segment has suspended the other threads it resumes
\* them before it returns, on the paths where a Mach call fails too: whenever
\* the function is not running the other threads are not suspended.
C39_ThreadsResumedOnEveryReturn ==
    (platform.os = "darwin" /\ cpu.op # "recreate_text_segment")
        => ~suspended
====
